---- MODULE Spec2Model ----
(***************************************************************************)
(* Manifest validation of the pipelines configuration (package config):    *)
(* Manifest.Validate, the validateVisitor callbacks and their helpers.     *)
(*                                                                         *)
(* A Go string is modelled as a sequence of tokens.  A token is either one *)
(* character of a name ("a", "b", "1", "-", "A", "/", ".") or a literal    *)
(* that the code writes as a whole ("environments", "missing service ",    *)
(* ...).  String concatenation is \o, so that formatting, path building    *)
(* and the "/" -> "." replacement are computed, not assumed.               *)
(***************************************************************************)
EXTENDS Naturals, Sequences, FiniteSets, TLC

\* One call of Manifest.Validate: its manifest, its position and its visitor.
VARIABLES manifest, pc, idx, errs, envNames, appNames, serviceNames,
          serviceURLs, configNames, result

\* other: a second call of Manifest.Validate, as a record of the same fields.
\* probe: one call of a validation helper, its arguments and what it returned.
\* boot:  one call of checkBootstrapDependencies.
VARIABLES other, probe, boot

vars == <<manifest, pc, idx, errs, envNames, appNames, serviceNames,
          serviceURLs, configNames, result, other, probe, boot>>

\* What a step of the first Validate call leaves alone.
others == <<other, probe, boot>>

\* The nil pointer / nil error.
Nil == [Type |-> "nil"]

\* ------------------------------------------------------------------------
\* Bounds of the model.

\* A manifest has at most MaxNodes environments, applications and services
\* in total.
MaxNodes == 4

\* ------------------------------------------------------------------------
\* Strings.

Lower == {"a", "b"}
Digit == {"1"}
Hyphen == "-"

\* k8s.io/apimachinery validation.DNS1035LabelMaxLength
DNS1035LabelMaxLength == 63

Last(s) == s[Len(s)]

\* strings.ReplaceAll(path, "/", ".")
yamlPath(path) == [i \in 1..Len(path) |-> IF path[i] = "/" THEN "." ELSE path[i]]

\* a + "." + s for every s of b
RECURSIVE yamlJoin(_, _)
yamlJoin(a, b) ==
    IF b = <<>> THEN a ELSE yamlJoin(a \o <<".">> \o Head(b), Tail(b))

\* fmt.Sprintf("%q", item)
Quote(item) == <<"\"">> \o item \o <<"\"">>

addQuotes(items) == [i \in 1..Len(items) |-> Quote(items[i])]

\* strings.Join(items, sep)
RECURSIVE StringsJoin(_, _)
StringsJoin(items, sep) ==
    IF items = <<>> THEN <<>>
    ELSE IF Len(items) = 1 THEN items[1]
    ELSE items[1] \o sep \o StringsJoin(Tail(items), sep)

\* ------------------------------------------------------------------------
\* Errors.  An *apis.FieldError is a record with Message, Details and Paths;
\* the error of fmt.Errorf is a record with a Message only.

FieldError(message, details, paths) ==
    [Type |-> "FieldError", Message |-> message, Details |-> details,
     Paths |-> paths]

invalidNameError(name, details, paths) ==
    FieldError(<<"invalid name ">> \o Quote(name), details, paths)

missingFieldsError(fields, paths) ==
    FieldError(<<"missing field(s) ">> \o StringsJoin(addQuotes(fields), <<",">>),
               <<>>, paths)

duplicateFieldsError(fields, paths) ==
    FieldError(<<"duplicate field(s) ">> \o StringsJoin(addQuotes(fields), <<",">>),
               <<>>, paths)

missingServiceRefError(svc, app, paths) ==
    FieldError(<<"missing service ">> \o Quote(svc) \o <<" in app ">>
                   \o Quote(app), <<>>, paths)

duplicateSourceError(url, paths) ==
    FieldError(<<"duplicate source ">> \o url, <<>>, paths)

\* knative.dev/pkg/apis.ErrMultipleOneOf(fieldPaths...)
ErrMultipleOneOf(fieldPaths) ==
    FieldError(<<"expected exactly one, got both">>, <<>>, fieldPaths)

\* fmt.Errorf("The environment %s cannot have the same name as the config names", name)
configNameError(name) ==
    [Type |-> "error",
     Message |-> <<"The environment ">> \o name
                     \o <<" cannot have the same name as the config names">>]

\* ------------------------------------------------------------------------
\* Names.

\* ^[a-z]([-a-z0-9]*[a-z0-9])?$
dns1035LabelRegexp(value) ==
    /\ Len(value) >= 1
    /\ value[1] \in Lower
    /\ \A i \in 1..Len(value) : value[i] \in Lower \cup Digit \cup {Hyphen}
    /\ Last(value) \in Lower \cup Digit

\* validation.IsDNS1035Label: the messages of the failed checks, length first.
IsDNS1035Label(value) ==
    (IF Len(value) > DNS1035LabelMaxLength
        THEN << <<"must be no more than 63 characters">> >> ELSE <<>>)
    \o (IF ~dns1035LabelRegexp(value)
        THEN << <<"a DNS-1035 label must consist of lower case alphanumeric characters or '-', start with an alphabetic character, and end with an alphanumeric character">> >>
        ELSE <<>>)

\* validation.maskTrailingDash
maskTrailingDash(name) ==
    IF Len(name) > 1 /\ Last(name) = Hyphen
        THEN SubSeq(name, 1, Len(name) - 2) \o <<"a">>
        ELSE name

\* validation.NameIsDNS1035Label(name, prefix)
NameIsDNS1035Label(name, prefix) ==
    IsDNS1035Label(IF prefix THEN maskTrailingDash(name) ELSE name)

\* validateName: Nil, or the invalid-name error with the first message.
validateName(name, path) ==
    LET err == NameIsDNS1035Label(name, TRUE)
    IN  IF Len(err) > 0 THEN invalidNameError(name, err[1], <<path>>) ELSE Nil

\* `if err := validateName(..); err != nil { errs = append(errs, err) }`
NameErrs(name, path) ==
    IF validateName(name, path) # Nil THEN <<validateName(name, path)>> ELSE <<>>

\* ------------------------------------------------------------------------
\* The validators of the nested blocks; each returns a list of errors.

\* A validateConfigRepo that reports each empty field in an error of its own.
validateConfigRepoPerField(repo, path) ==
    (IF repo.URL = <<>>
        THEN <<missingFieldsError(<< <<"url">> >>, <<path>>)>> ELSE <<>>)
    \o (IF repo.Path = <<>>
        THEN <<missingFieldsError(<< <<"path">> >>, <<path>>)>> ELSE <<>>)

validateConfigRepo(repo, path) ==
    LET missingFields ==
            (IF repo.URL = <<>> THEN << <<"url">> >> ELSE <<>>)
            \o (IF repo.Path = <<>> THEN << <<"path">> >> ELSE <<>>)
    IN  IF Len(missingFields) > 0
            THEN <<missingFieldsError(missingFields, <<path>>)>>
            ELSE <<>>

\* A validateWebhook that returns at the first invalid name of the secret.
validateWebhookFailFast(hook, path) ==
    IF hook = Nil THEN <<>>
    ELSE IF hook.Secret = Nil
        THEN <<missingFieldsError(<< <<"secret">> >>,
                                  <<yamlJoin(path, << <<"webhook">> >>)>>)>>
    ELSE IF validateName(hook.Secret.Name, yamlJoin(path,
                << <<"webhook">>, <<"secret">>, <<"name">> >>)) # Nil
        THEN NameErrs(hook.Secret.Name,
                  yamlJoin(path, << <<"webhook">>, <<"secret">>, <<"name">> >>))
    ELSE NameErrs(hook.Secret.Namespace,
                  yamlJoin(path, << <<"webhook">>, <<"secret">>, <<"namespace">> >>))

validateWebhook(hook, path) ==
    IF hook = Nil THEN <<>>
    ELSE IF hook.Secret = Nil
        THEN <<missingFieldsError(<< <<"secret">> >>,
                                  <<yamlJoin(path, << <<"webhook">> >>)>>)>>
    ELSE NameErrs(hook.Secret.Name,
                  yamlJoin(path, << <<"webhook">>, <<"secret">>, <<"name">> >>))
         \o NameErrs(hook.Secret.Namespace,
                  yamlJoin(path, << <<"webhook">>, <<"secret">>, <<"namespace">> >>))

\* A loop over the bindings that stops at the first invalid one.
RECURSIVE BindingErrsFailFast(_, _)
BindingErrsFailFast(bindings, path) ==
    IF bindings = <<>> THEN <<>>
    ELSE IF validateName(Head(bindings), path) # Nil
        THEN <<validateName(Head(bindings), path)>>
    ELSE BindingErrsFailFast(Tail(bindings), path)

RECURSIVE BindingErrs(_, _)
BindingErrs(bindings, path) ==
    IF bindings = <<>> THEN <<>>
    ELSE NameErrs(Head(bindings), path) \o BindingErrs(Tail(bindings), path)

validatePipelines(pipelines, path) ==
    IF pipelines = Nil THEN <<>>
    ELSE IF pipelines.Integration = Nil
        THEN <<missingFieldsError(<< <<"integration">> >>,
                                  <<yamlJoin(path, << <<"pipelines">> >>)>>)>>
    ELSE BindingErrs(pipelines.Integration.Bindings,
                     yamlJoin(path, << <<"pipelines">>, <<"integration">>,
                                       <<"binding">> >>))

\* checkDuplicate(field, path, checkMap): the error returned and the map after.
checkDuplicateErrs(field, path, checkMap) ==
    IF path \in checkMap THEN <<duplicateFieldsError(<<field>>, <<path>>)>>
    ELSE <<>>

\* A checkDuplicate that forgets to register the key.
checkDuplicateMapForgetful(field, path, checkMap) == checkMap

checkDuplicateMap(field, path, checkMap) == checkMap \cup {path}

\* ------------------------------------------------------------------------
\* Paths of the nodes (PathForEnvironment, PathForApplication and
\* PathForService are called with the environment and the node only).

PathForEnvironment(env) == <<"environments", "/">> \o env.Name

PathForApplication(env, app) ==
    PathForEnvironment(env) \o <<"/", "apps", "/">> \o app.Name

PathForService(env, serviceName) ==
    PathForEnvironment(env) \o <<"/", "services", "/">> \o serviceName

\* ------------------------------------------------------------------------
\* validateVisitor.validateConfig: the errors, and configNames afterwards.

\* A config check that demands the ArgoCD entry.
validateConfigErrsMandatory(m) ==
    IF m.Config = Nil \/ m.Config.ArgoCDConfig = Nil
        THEN <<missingFieldsError(<< <<"argocd">> >>, << <<"config">> >>)>>
        ELSE <<>>

validateConfigErrs(m) ==
    IF m.Config = Nil THEN <<>>
    ELSE (IF m.Config.ArgoCDConfig # Nil
            THEN NameErrs(m.Config.ArgoCDConfig.Namespace,
                          <<"config.">> \o m.Config.ArgoCDConfig.Namespace)
            ELSE <<>>)
         \o (IF m.Config.PipelineConfig # Nil
            THEN NameErrs(m.Config.PipelineConfig.Name,
                          <<"config.">> \o m.Config.PipelineConfig.Name)
            ELSE <<>>)

\* A config check that registers the ArgoCD name only.
validateConfigNamesArgoOnly(m) ==
    IF m.Config = Nil \/ m.Config.ArgoCDConfig = Nil THEN {}
    ELSE {m.Config.ArgoCDConfig.Namespace}

validateConfigNames(m) ==
    IF m.Config = Nil THEN {}
    ELSE (IF m.Config.ArgoCDConfig # Nil
            THEN {m.Config.ArgoCDConfig.Namespace} ELSE {})
         \cup (IF m.Config.PipelineConfig # Nil
            THEN {m.Config.PipelineConfig.Name} ELSE {})

\* ------------------------------------------------------------------------
\* The visitor callbacks: the errors each appends to vv.errs, in order, and the
\* value each returns to the walker.

\* An Environment callback that validates the name before the other checks.
EnvironmentErrsNameFirst(env, cfgNames, envN) ==
    LET envPath == yamlPath(PathForEnvironment(env))
    IN  NameErrs(env.Name, envPath)
        \o (IF env.Name \in cfgNames THEN <<configNameError(env.Name)>> ELSE <<>>)
        \o checkDuplicateErrs(env.Name, envPath, envN)
        \o validatePipelines(env.Pipelines, envPath)

EnvironmentErrs(env, cfgNames, envN) ==
    LET envPath == yamlPath(PathForEnvironment(env))
    IN  (IF env.Name \in cfgNames THEN <<configNameError(env.Name)>> ELSE <<>>)
        \o checkDuplicateErrs(env.Name, envPath, envN)
        \o NameErrs(env.Name, envPath)
        \o validatePipelines(env.Pipelines, envPath)

EnvironmentRet(env) == Nil

\* The loop over app.ServiceRefs.
RECURSIVE ServiceRefErrs(_, _, _, _)
ServiceRefErrs(refs, appName, appPath, svcN) ==
    IF refs = <<>> THEN <<>>
    ELSE (IF Head(refs) \notin svcN
            THEN <<missingServiceRefError(Head(refs), appName, <<appPath>>)>>
            ELSE <<>>)
         \o ServiceRefErrs(Tail(refs), appName, appPath, svcN)

\* A oneOf check whose "both" branch needs more than one service reference.
OneOfErrsOffByOne(app, appPath) ==
    (IF Len(app.ServiceRefs) = 0 /\ app.ConfigRepo = Nil
        THEN <<missingFieldsError(<< <<"services">>, <<"config_repo">> >>,
                                  <<appPath>>)>>
        ELSE <<>>)
    \o (IF Len(app.ServiceRefs) > 1 /\ app.ConfigRepo # Nil
        THEN <<ErrMultipleOneOf(<<yamlJoin(appPath, << <<"services">> >>),
                                  yamlJoin(appPath, << <<"config_repo">> >>)>>)>>
        ELSE <<>>)

OneOfErrs(app, appPath) ==
    (IF Len(app.ServiceRefs) = 0 /\ app.ConfigRepo = Nil
        THEN <<missingFieldsError(<< <<"services">>, <<"config_repo">> >>,
                                  <<appPath>>)>>
        ELSE <<>>)
    \o (IF Len(app.ServiceRefs) > 0 /\ app.ConfigRepo # Nil
        THEN <<ErrMultipleOneOf(<<yamlJoin(appPath, << <<"services">> >>),
                                  yamlJoin(appPath, << <<"config_repo">> >>)>>)>>
        ELSE <<>>)

\* if app.ConfigRepo != nil { append(validateConfigRepo(.., appPath.config_repo)) }
ConfigRepoErrs(app, appPath) ==
    IF app.ConfigRepo # Nil
        THEN validateConfigRepo(app.ConfigRepo,
                                yamlJoin(appPath, << <<"config_repo">> >>))
        ELSE <<>>

\* An Application callback that also looks the application's name up in the
\* service registry.
ApplicationErrsSharedNames(env, app, appN, svcN) ==
    LET appPath == yamlPath(PathForApplication(env, app))
    IN  checkDuplicateErrs(app.Name, appPath, appN)
        \o checkDuplicateErrs(app.Name, app.Name, svcN)
        \o NameErrs(app.Name, appPath)
        \o OneOfErrs(app, appPath)
        \o ConfigRepoErrs(app, appPath)
        \o (IF Len(app.ServiceRefs) > 0
            THEN ServiceRefErrs(app.ServiceRefs, app.Name, appPath, svcN)
            ELSE <<>>)

ApplicationErrs(env, app, appN, svcN) ==
    LET appPath == yamlPath(PathForApplication(env, app))
    IN  checkDuplicateErrs(app.Name, appPath, appN)
        \o NameErrs(app.Name, appPath)
        \o OneOfErrs(app, appPath)
        \o ConfigRepoErrs(app, appPath)
        \o (IF Len(app.ServiceRefs) > 0
            THEN ServiceRefErrs(app.ServiceRefs, app.Name, appPath, svcN)
            ELSE <<>>)

\* A callback that returns its first name error to the walker instead of nil.
ApplicationRetFailFast(env, app) ==
    validateName(app.Name, yamlPath(PathForApplication(env, app)))

ApplicationRet(env, app) == Nil

\* A Service callback that clears the source URL it has registered.
ServiceAfterCleared(svc) == [svc EXCEPT !.SourceURL = <<>>]

\* The service after its callback: the callback assigns to none of its fields.
ServiceAfter(svc) == svc

ServiceErrs(env, svc, svcN) ==
    LET svcPath == yamlPath(PathForService(env, svc.Name))
    IN  checkDuplicateErrs(svc.Name, svcPath, svcN)
        \o NameErrs(svc.Name, svcPath)
        \o validateWebhook(svc.Webhook, svcPath)
        \o validatePipelines(svc.Pipelines, svcPath)

\* A Service callback that overwrites the paths of a URL instead of appending.
ServiceURLsAfterOverwrite(urls, svc, svcPath) ==
    IF svc.SourceURL # <<>>
        THEN IF svc.SourceURL \in DOMAIN urls
                THEN [urls EXCEPT ![svc.SourceURL] = <<svcPath>>]
                ELSE urls @@ (svc.SourceURL :> <<svcPath>>)
        ELSE urls

\* vv.serviceURLs after the Service callback.
ServiceURLsAfter(urls, svc, svcPath) ==
    IF svc.SourceURL # <<>>
        THEN IF svc.SourceURL \in DOMAIN urls
                THEN [urls EXCEPT ![svc.SourceURL] = Append(@, svcPath)]
                ELSE urls @@ (svc.SourceURL :> <<svcPath>>)
        ELSE urls

\* A Service callback that registers the name of a valid service only.
ServiceNamesAfterIfValid(svcN, svc, svcPath) ==
    IF validateName(svc.Name, svcPath) = Nil
        THEN checkDuplicateMap(svc.Name, svcPath, svcN) \cup {svc.Name}
        ELSE checkDuplicateMap(svc.Name, svcPath, svcN)

\* vv.serviceNames after the Service callback: the path key of checkDuplicate
\* and the name key of the last statement.
ServiceNamesAfter(svcN, svc, svcPath) ==
    checkDuplicateMap(svc.Name, svcPath, svcN) \cup {svc.Name}

ServiceRet(env, svc) == Nil

\* ------------------------------------------------------------------------
\* Manifest.Walk: the visits in the order the walker makes them.  Environments
\* in document order; for each, the environment, then its applications, then
\* its services, each in document order.

EnvVisits(m, i) ==
    <<[kind |-> "Environment", env |-> i, n |-> 0]>>
    \o [j \in 1..Len(m.Environments[i].Apps) |->
            [kind |-> "Application", env |-> i, n |-> j]]
    \o [j \in 1..Len(m.Environments[i].Services) |->
            [kind |-> "Service", env |-> i, n |-> j]]

RECURSIVE WalkFrom(_, _)
WalkFrom(m, i) ==
    IF i > Len(m.Environments) THEN <<>>
    ELSE EnvVisits(m, i) \o WalkFrom(m, i + 1)

WalkOrder(m) == WalkFrom(m, 1)

\* ------------------------------------------------------------------------
\* The manifests the model validates.

a == <<"a">>
b == <<"b">>
upper == <<"A">>
u == <<"u">>
v == <<"v">>

\* A service reference spelled like the path of service a of environment a.
pathRef == yamlPath(PathForService([Name |-> a], a))

Configs ==
    {Nil,
     [ArgoCDConfig |-> Nil, PipelineConfig |-> Nil],
     [ArgoCDConfig |-> [Namespace |-> a], PipelineConfig |-> Nil],
     [ArgoCDConfig |-> Nil, PipelineConfig |-> [Name |-> b]],
     [ArgoCDConfig |-> [Namespace |-> upper], PipelineConfig |-> [Name |-> a]]}

EnvNames == {a, b}

EnvPipelines == {Nil}

NoRepo == Nil
Repo == [URL |-> u, Path |-> <<"p">>]
RepoNoURL == [URL |-> <<>>, Path |-> <<"p">>]

AppPool ==
    {[Name |-> a, ServiceRefs |-> <<a>>, ConfigRepo |-> NoRepo],
     [Name |-> a, ServiceRefs |-> <<>>, ConfigRepo |-> NoRepo],
     [Name |-> a, ServiceRefs |-> <<>>, ConfigRepo |-> Repo],
     [Name |-> a, ServiceRefs |-> <<a, a>>, ConfigRepo |-> RepoNoURL],
     [Name |-> a, ServiceRefs |-> <<pathRef>>, ConfigRepo |-> NoRepo],
     [Name |-> upper, ServiceRefs |-> <<b>>, ConfigRepo |-> Repo]}

SvcPool ==
    {[Name |-> a, SourceURL |-> u, Webhook |-> Nil, Pipelines |-> Nil],
     [Name |-> b, SourceURL |-> u, Webhook |-> Nil, Pipelines |-> Nil],
     [Name |-> upper, SourceURL |-> <<>>, Webhook |-> [Secret |-> Nil],
      Pipelines |-> [Integration |-> Nil]],
     [Name |-> b, SourceURL |-> v,
      Webhook |-> [Secret |-> [Name |-> a, Namespace |-> <<>>]],
      Pipelines |-> [Integration |-> [Bindings |-> <<a, upper>>]]]}

SeqsUpTo(S, n) == UNION {[1..k -> S] : k \in 0..n}

\* The environments with at most k applications and services.
EnvsUpTo(k) ==
    UNION {{[Name |-> nm, Pipelines |-> pl, Apps |-> as, Services |-> ss] :
                nm \in EnvNames, pl \in EnvPipelines,
                ss \in SeqsUpTo(SvcPool, k - Len(as))} :
           as \in SeqsUpTo(AppPool, k)}

NodesOf(env) == 1 + Len(env.Apps) + Len(env.Services)

\* The environment lists with at most n nodes.
RECURSIVE EnvSeqs(_)
EnvSeqs(n) ==
    IF n = 0 THEN {<<>>}
    ELSE {<<>>} \cup UNION {{<<e>> \o r : r \in EnvSeqs(n - NodesOf(e))} :
                            e \in EnvsUpTo(n - 1)}

Manifests == [Config : Configs, Environments : EnvSeqs(MaxNodes)]

\* ------------------------------------------------------------------------
\* Manifest.Validate as a process: pc is its position.

\* multierror.Join(errs)
MultierrorJoin(es) == [Type |-> "multierror", Errors |-> es]

\* No second call, no helper call, no dependency check.
Idle == [pc |-> "idle"]

\* The state of a call right after Validate built its visitor.
InitCall ==
    /\ pc = "config"
    /\ idx = 1
    /\ errs = <<>>
    /\ envNames = {}
    /\ appNames = {}
    /\ serviceNames = {}
    /\ serviceURLs = <<>>
    /\ configNames = {}
    /\ result = Nil

Init ==
    /\ manifest \in Manifests
    /\ InitCall
    /\ other = Idle
    /\ probe = Idle
    /\ boot = Idle

\* vv.errs = append(vv.errs, vv.validateConfig(m)...)
ValidateConfig ==
    /\ pc = "config"
    /\ errs' = errs \o validateConfigErrs(manifest)
    /\ configNames' = configNames \cup validateConfigNames(manifest)
    /\ pc' = IF WalkOrder(manifest) = <<>> THEN "urls" ELSE "walk"
    /\ UNCHANGED <<manifest, idx, envNames, appNames, serviceNames,
                   serviceURLs, result>>
    /\ UNCHANGED others

Visit == WalkOrder(manifest)[idx]
VisitEnv == manifest.Environments[Visit.env]

\* One callback of the walk has appended new and returned ret: the walker goes
\* on to the next node, or returns (ret when it is an error) to Validate, which
\* appends a non-nil error of the walk.
\* A Validate that returns right after a failed walk, without the
\* reconciliation of the source URLs.
WalkStepSkipsURLs(new, ret) ==
    /\ errs' = errs \o new \o (IF ret # Nil THEN <<ret>> ELSE <<>>)
    /\ IF ret # Nil
        THEN /\ pc' = "return"
             /\ idx' = idx
        ELSE /\ idx' = idx + 1
             /\ pc' = IF idx = Len(WalkOrder(manifest)) THEN "urls" ELSE "walk"

WalkStep(new, ret) ==
    /\ errs' = errs \o new \o (IF ret # Nil THEN <<ret>> ELSE <<>>)
    /\ IF ret # Nil
        THEN /\ pc' = "urls"
             /\ idx' = idx
        ELSE /\ idx' = idx + 1
             /\ pc' = IF idx = Len(WalkOrder(manifest)) THEN "urls" ELSE "walk"

VisitEnvironment ==
    /\ pc = "walk"
    /\ Visit.kind = "Environment"
    /\ LET env == VisitEnv
       IN  /\ WalkStep(EnvironmentErrs(env, configNames, envNames),
                       EnvironmentRet(env))
           /\ envNames' = checkDuplicateMap(env.Name,
                              yamlPath(PathForEnvironment(env)), envNames)
    /\ UNCHANGED <<manifest, appNames, serviceNames, serviceURLs, configNames,
                   result>>
    /\ UNCHANGED others

VisitApplication ==
    /\ pc = "walk"
    /\ Visit.kind = "Application"
    /\ LET env == VisitEnv
           app == env.Apps[Visit.n]
       IN  /\ WalkStep(ApplicationErrs(env, app, appNames, serviceNames),
                       ApplicationRet(env, app))
           /\ appNames' = checkDuplicateMap(app.Name,
                              yamlPath(PathForApplication(env, app)), appNames)
    /\ UNCHANGED <<manifest, envNames, serviceNames, serviceURLs, configNames,
                   result>>
    /\ UNCHANGED others

VisitService ==
    /\ pc = "walk"
    /\ Visit.kind = "Service"
    /\ LET env == VisitEnv
           svc == env.Services[Visit.n]
           svcPath == yamlPath(PathForService(env, svc.Name))
       IN  /\ WalkStep(ServiceErrs(env, svc, serviceNames), ServiceRet(env, svc))
           /\ serviceURLs' = ServiceURLsAfter(serviceURLs, svc, svcPath)
           /\ serviceNames' = ServiceNamesAfter(serviceNames, svc, svcPath)
           /\ manifest' = [manifest EXCEPT
                  !.Environments[Visit.env].Services[Visit.n] = ServiceAfter(svc)]
    /\ UNCHANGED <<envNames, appNames, configNames, result>>
    /\ UNCHANGED others

\* The URLs validateServiceURLs reports: those with more than one path.
DuplicateURLs(urls) == {url \in DOMAIN urls : Len(urls[url]) > 1}

\* The orders in which a range over a map may yield the keys in S.
KeyOrders(S) ==
    {o \in [1..Cardinality(S) -> S] : \A i, j \in DOMAIN o : o[i] = o[j] => i = j}

\* vv.errs = append(vv.errs, vv.validateServiceURLs()...)
ValidateServiceURLs ==
    /\ pc = "urls"
    /\ \E o \in KeyOrders(DuplicateURLs(serviceURLs)) :
          errs' = errs \o [i \in DOMAIN o |->
                              duplicateSourceError(o[i], serviceURLs[o[i]])]
    /\ pc' = "return"
    /\ UNCHANGED <<manifest, idx, envNames, appNames, serviceNames,
                   serviceURLs, configNames, result>>
    /\ UNCHANGED others

\* A return that treats a single accumulated error as success.
ReturnIgnoringOne ==
    /\ pc = "return"
    /\ result' = IF Len(errs) <= 1 THEN Nil ELSE MultierrorJoin(errs)
    /\ pc' = "done"
    /\ UNCHANGED <<manifest, idx, errs, envNames, appNames, serviceNames,
                   serviceURLs, configNames>>
    /\ UNCHANGED others

\* if len(vv.errs) == 0 { return nil }; return multierror.Join(vv.errs)
Return ==
    /\ pc = "return"
    /\ result' = IF Len(errs) = 0 THEN Nil ELSE MultierrorJoin(errs)
    /\ pc' = "done"
    /\ UNCHANGED <<manifest, idx, errs, envNames, appNames, serviceNames,
                   serviceURLs, configNames>>
    /\ UNCHANGED others

Next ==
    \/ ValidateConfig
    \/ VisitEnvironment
    \/ VisitApplication
    \/ VisitService
    \/ ValidateServiceURLs
    \/ Return

Spec == Init /\ [][Next]_vars

TypeOK ==
    /\ pc \in {"config", "walk", "urls", "return", "done"}
    /\ idx \in 1..(Len(WalkOrder(manifest)) + 1)

\* ------------------------------------------------------------------------
\* A second call of Validate. Its manifest, its position and its visitor are
\* the fields of the record other: the visitor is allocated inside the call
\* and no package-level variable is read or written by it.

\* vv := &validateVisitor{...} of a call on manifest m.
NewCall(m) ==
    [manifest |-> m, pc |-> "config", idx |-> 1, errs |-> <<>>,
     envNames |-> {}, appNames |-> {}, serviceNames |-> {},
     serviceURLs |-> <<>>, configNames |-> {}, result |-> Nil]

\* The walk of call c after a callback appended new and returned ret.
CallWalked(c, new, ret) ==
    [c EXCEPT !.errs = @ \o new \o (IF ret # Nil THEN <<ret>> ELSE <<>>),
              !.pc = IF ret # Nil \/ c.idx = Len(WalkOrder(c.manifest))
                         THEN "urls" ELSE "walk",
              !.idx = IF ret # Nil THEN @ ELSE @ + 1]

\* The callback of the walk at the node call c stands on.
CallVisit(c) ==
    LET visit == WalkOrder(c.manifest)[c.idx]
        env == c.manifest.Environments[visit.env]
    IN  CASE visit.kind = "Environment" ->
               [CallWalked(c, EnvironmentErrs(env, c.configNames, c.envNames),
                           EnvironmentRet(env))
                   EXCEPT !.envNames = checkDuplicateMap(env.Name,
                                           yamlPath(PathForEnvironment(env)), @)]
          [] visit.kind = "Application" ->
               LET app == env.Apps[visit.n]
               IN  [CallWalked(c, ApplicationErrs(env, app, c.appNames,
                                                  c.serviceNames),
                               ApplicationRet(env, app))
                       EXCEPT !.appNames = checkDuplicateMap(app.Name,
                                  yamlPath(PathForApplication(env, app)), @)]
          [] visit.kind = "Service" ->
               LET svc == env.Services[visit.n]
                   svcPath == yamlPath(PathForService(env, svc.Name))
               IN  [CallWalked(c, ServiceErrs(env, svc, c.serviceNames),
                               ServiceRet(env, svc))
                       EXCEPT !.manifest.Environments[visit.env].Services[visit.n] =
                                  ServiceAfter(svc),
                              !.serviceURLs = ServiceURLsAfter(@, svc, svcPath),
                              !.serviceNames = ServiceNamesAfter(@, svc, svcPath)]

\* The states call c can be in after its next step.
CallSteps(c) ==
    CASE c.pc = "config" ->
           {[c EXCEPT !.errs = @ \o validateConfigErrs(c.manifest),
                      !.configNames = @ \cup validateConfigNames(c.manifest),
                      !.pc = IF WalkOrder(c.manifest) = <<>>
                                 THEN "urls" ELSE "walk"]}
      [] c.pc = "walk" -> {CallVisit(c)}
      [] c.pc = "urls" ->
           {[c EXCEPT !.errs = @ \o [i \in DOMAIN o |->
                          duplicateSourceError(o[i], c.serviceURLs[o[i]])],
                      !.pc = "return"] :
               o \in KeyOrders(DuplicateURLs(c.serviceURLs))}
      [] c.pc = "return" ->
           {[c EXCEPT !.result = IF Len(c.errs) = 0
                                     THEN Nil ELSE MultierrorJoin(c.errs),
                      !.pc = "done"]}
      [] OTHER -> {}

\* A second call whose serviceNames registry is the one of the first call.
OtherVisitorShared == [other EXCEPT !.serviceNames = serviceNames]

\* The visitor the second call works on: its own.
OtherVisitor == other

\* A step of the second call.
OtherStep ==
    /\ other # Idle
    /\ other' \in CallSteps(OtherVisitor)
    /\ UNCHANGED <<manifest, pc, idx, errs, envNames, appNames, serviceNames,
                   serviceURLs, configNames, result, probe, boot>>

\* ------------------------------------------------------------------------
\* Validate run twice on one manifest, the second run after the first returned.

MaxServices == 2

URLServices == {svc \in SvcPool : svc.SourceURL # <<>>}

\* Environments with at most one application and MaxServices services, each
\* service with a source URL.
RerunEnvs ==
    {[Name |-> nm, Pipelines |-> Nil, Apps |-> as, Services |-> ss] :
        nm \in EnvNames,
        as \in {<<>>, <<[Name |-> a, ServiceRefs |-> <<a>>, ConfigRepo |-> NoRepo]>>},
        ss \in SeqsUpTo(URLServices, MaxServices)}

RerunManifests == [Config : {Nil}, Environments : SeqsUpTo(RerunEnvs, 2)]

InitTwice ==
    /\ manifest \in RerunManifests
    /\ InitCall
    /\ other = NewCall(manifest)
    /\ probe = Idle
    /\ boot = Idle

\* The second run starts once the first has returned.
SecondRun ==
    /\ pc = "done"
    /\ OtherStep

NextTwice ==
    \/ ValidateConfig
    \/ VisitEnvironment
    \/ VisitApplication
    \/ VisitService
    \/ ValidateServiceURLs
    \/ Return
    \/ SecondRun

SpecTwice == InitTwice /\ [][NextTwice]_vars

\* ------------------------------------------------------------------------
\* Validate on manifests of service references: an environment a, alone or
\* followed by an environment b, each with at most one application and at
\* most MaxServices services.

RefApps ==
    {[Name |-> a, ServiceRefs |-> <<r>>, ConfigRepo |-> NoRepo] :
        r \in {a, upper, pathRef}}

\* A service without violations, one with an invalid name, no webhook secret
\* and no integration, and one named like the path of a service.
RefServices ==
    {[Name |-> a, SourceURL |-> u, Webhook |-> Nil, Pipelines |-> Nil],
     [Name |-> upper, SourceURL |-> <<>>, Webhook |-> [Secret |-> Nil],
      Pipelines |-> [Integration |-> Nil]],
     [Name |-> pathRef, SourceURL |-> <<>>, Webhook |-> Nil, Pipelines |-> Nil]}

RefEnvs(nm) ==
    {[Name |-> nm, Pipelines |-> Nil, Apps |-> as, Services |-> ss] :
        as \in SeqsUpTo(RefApps, 1), ss \in SeqsUpTo(RefServices, MaxServices)}

RefManifests ==
    [Config : {Nil},
     Environments : {<<e>> : e \in RefEnvs(a)}
                    \cup {<<e, f>> : e \in RefEnvs(a), f \in RefEnvs(b)}]

InitRefs ==
    /\ manifest \in RefManifests
    /\ InitCall
    /\ other = Idle
    /\ probe = Idle
    /\ boot = Idle

SpecRefs == InitRefs /\ [][Next]_vars

\* ------------------------------------------------------------------------
\* Validate with a walker that may fail: before any node it may return a
\* fatal error of its own to Validate instead of going on.

WalkerFatal == [Type |-> "fatal", Message |-> <<"walk failed">>]

WalkFatal ==
    /\ pc = "walk"
    /\ WalkStep(<<>>, WalkerFatal)
    /\ UNCHANGED <<manifest, envNames, appNames, serviceNames, serviceURLs,
                   configNames, result>>
    /\ UNCHANGED others

FatalConfigs ==
    {Nil, [ArgoCDConfig |-> [Namespace |-> upper],
           PipelineConfig |-> [Name |-> a]]}

FatalPipelines == {Nil, [Integration |-> [Bindings |-> <<upper, <<>>>>]]}

FatalServices == {svc \in SvcPool : svc.SourceURL # v}

\* The first environment of a manifest, and the one that may follow it.
FatalEnvs ==
    {[Name |-> nm, Pipelines |-> pl, Apps |-> as, Services |-> ss] :
        nm \in {a, upper}, pl \in FatalPipelines,
        as \in {<<>>, <<[Name |-> a, ServiceRefs |-> <<a>>, ConfigRepo |-> NoRepo]>>},
        ss \in SeqsUpTo(FatalServices, MaxServices)}

FatalLastEnvs ==
    {[Name |-> nm, Pipelines |-> pl, Apps |-> <<>>, Services |-> ss] :
        nm \in {a, upper}, pl \in FatalPipelines,
        ss \in SeqsUpTo(FatalServices, 1)}

FatalManifests ==
    [Config : FatalConfigs,
     Environments : {<<>>} \cup {<<e>> : e \in FatalEnvs}
                    \cup {<<e, f>> : e \in FatalEnvs, f \in FatalLastEnvs}]

InitFatal ==
    /\ manifest \in FatalManifests
    /\ InitCall
    /\ other = Idle
    /\ probe = Idle
    /\ boot = Idle

NextFatal ==
    \/ ValidateConfig
    \/ VisitEnvironment
    \/ VisitApplication
    \/ VisitService
    \/ WalkFatal
    \/ ValidateServiceURLs
    \/ Return

SpecFatal == InitFatal /\ [][NextFatal]_vars

\* ------------------------------------------------------------------------
\* Two calls of Validate on two manifests, their steps interleaved.

MaxPairNodes == 2

PairApps ==
    {[Name |-> a, ServiceRefs |-> <<a>>, ConfigRepo |-> NoRepo],
     [Name |-> a, ServiceRefs |-> <<>>, ConfigRepo |-> Repo]}

PairServices == {svc \in SvcPool : svc.SourceURL = u}

\* The manifests of at most MaxPairNodes nodes made of these.
PairManifests ==
    {m \in [Config : {Nil}, Environments : EnvSeqs(MaxPairNodes)] :
        \A e \in DOMAIN m.Environments :
            LET env == m.Environments[e]
            IN  /\ \A i \in DOMAIN env.Apps : env.Apps[i] \in PairApps
                /\ \A i \in DOMAIN env.Services :
                      env.Services[i] \in PairServices}

InitConcurrent ==
    /\ manifest \in PairManifests
    /\ InitCall
    /\ other \in {NewCall(m) : m \in PairManifests}
    /\ probe = Idle
    /\ boot = Idle

NextConcurrent ==
    \/ ValidateConfig
    \/ VisitEnvironment
    \/ VisitApplication
    \/ VisitService
    \/ ValidateServiceURLs
    \/ Return
    \/ OtherStep

SpecConcurrent == InitConcurrent /\ [][NextConcurrent]_vars

\* What a call in state c can return when no other call runs.
RECURSIVE Outcomes(_)
Outcomes(c) ==
    IF c.pc = "done" THEN {c.result}
    ELSE UNION {Outcomes(d) : d \in CallSteps(c)}

\* ------------------------------------------------------------------------
\* The validation helpers called on their own: probe holds the function, its
\* arguments and, once it returned, what it returned (ret for validateName,
\* errs for the helpers that return a list).

MaxNameLen == 3
MaxBindings == 2

NameChars == {"a", "1", Hyphen, "A"}

Repeat(c, n) == [i \in 1..n |-> c]

\* Names of up to MaxNameLen characters, and names around the length limit.
ProbeNames ==
    SeqsUpTo(NameChars, MaxNameLen)
    \cup {Repeat("a", DNS1035LabelMaxLength),
          Repeat("a", DNS1035LabelMaxLength + 1),
          Repeat("a", DNS1035LabelMaxLength) \o <<Hyphen>>}

ProbePaths ==
    {yamlPath(PathForEnvironment([Name |-> a])),
     yamlPath(PathForService([Name |-> a], b))}

ProbeRepos == [URL : {<<>>, u}, Path : {<<>>, <<"p">>}]

ProbeApps ==
    [Name : {a}, ServiceRefs : {<<>>}, ConfigRepo : {Nil} \cup ProbeRepos]

SecretNames == {<<>>, a, upper, <<"a", Hyphen, "1">>, <<"a", Hyphen>>}

ProbeHooks ==
    {Nil, [Secret |-> Nil]}
    \cup {[Secret |-> sec] : sec \in [Name : SecretNames, Namespace : SecretNames]}

BindingNames == {a, upper, <<>>, <<"a", Hyphen>>}

ProbePipelines ==
    {Nil, [Integration |-> Nil]}
    \cup {[Integration |-> [Bindings |-> bs]] :
             bs \in SeqsUpTo(BindingNames, MaxBindings)}

ProbeCall(fn, arg, path) ==
    [pc |-> "call", fn |-> fn, arg |-> arg, path |-> path,
     ret |-> Nil, errs |-> <<>>]

ProbeCalls ==
    {ProbeCall("validateName", n, p) : n \in ProbeNames, p \in ProbePaths}
    \cup {ProbeCall("validateConfigRepo", app, p) :
             app \in ProbeApps, p \in ProbePaths}
    \cup {ProbeCall("validateWebhook", h, p) :
             h \in ProbeHooks, p \in ProbePaths}
    \cup {ProbeCall("validatePipelines", pl, p) :
             pl \in ProbePipelines, p \in ProbePaths}

\* No call of Validate in progress.
NoCall ==
    /\ manifest = [Config |-> Nil, Environments |-> <<>>]
    /\ pc = "idle"
    /\ idx = 1
    /\ errs = <<>>
    /\ envNames = {}
    /\ appNames = {}
    /\ serviceNames = {}
    /\ serviceURLs = <<>>
    /\ configNames = {}
    /\ result = Nil

InitHelpers ==
    /\ NoCall
    /\ other = Idle
    /\ probe \in ProbeCalls
    /\ boot = Idle

ProbeFrame ==
    UNCHANGED <<manifest, pc, idx, errs, envNames, appNames, serviceNames,
                serviceURLs, configNames, result, other, boot>>

CallValidateName ==
    /\ probe.pc = "call"
    /\ probe.fn = "validateName"
    /\ probe' = [probe EXCEPT !.pc = "returned",
                              !.ret = validateName(probe.arg, probe.path)]
    /\ ProbeFrame

\* The call of validateConfigRepo in the Application callback, probe.path
\* being the path of the application.
CallValidateConfigRepo ==
    /\ probe.pc = "call"
    /\ probe.fn = "validateConfigRepo"
    /\ probe' = [probe EXCEPT !.pc = "returned",
                              !.errs = ConfigRepoErrs(probe.arg, probe.path)]
    /\ ProbeFrame

CallValidateWebhook ==
    /\ probe.pc = "call"
    /\ probe.fn = "validateWebhook"
    /\ probe' = [probe EXCEPT !.pc = "returned",
                              !.errs = validateWebhook(probe.arg, probe.path)]
    /\ ProbeFrame

CallValidatePipelines ==
    /\ probe.pc = "call"
    /\ probe.fn = "validatePipelines"
    /\ probe' = [probe EXCEPT !.pc = "returned",
                              !.errs = validatePipelines(probe.arg, probe.path)]
    /\ ProbeFrame

NextHelpers ==
    \/ CallValidateName
    \/ CallValidateConfigRepo
    \/ CallValidateWebhook
    \/ CallValidatePipelines

SpecHelpers == InitHelpers /\ [][NextHelpers]_vars

\* ------------------------------------------------------------------------
\* checkBootstrapDependencies (wizard.go). boot.cluster is what each of the
\* three checks of the client finds; boot.log is what the spinners were told.

sealedSecretsName == "sealed-secrets-controller"
sealedSecretsNS == "kube-system"

Dependencies == {"sealed", "argocd", "pipelines"}

\* A check finds the dependency, does not find it, or fails otherwise.
Findings == {"found", "not found", "cluster error"}

\* client.CheckIf...Exists: nil when found, the error otherwise.
CheckError(finding) ==
    IF finding = "found" THEN Nil
    ELSE [Type |-> "error", Message |-> <<finding>>]

WarningOf(dep) ==
    CASE dep = "sealed" ->
           "Please install Sealed Secrets from https://github.com/bitnami-labs/sealed-secrets/releases"
      [] dep = "argocd" -> "Please install ArgoCD operator from OperatorHub"
      [] dep = "pipelines" ->
           "Please install OpenShift Pipelines operator from OperatorHub"

\* spinner.WarningStatus(..); spinner.End(false), or spinner.End(true)
SpinnerCalls(dep, err) ==
    IF err # Nil
        THEN <<[spinner |-> dep, call |-> "WarningStatus", arg |-> WarningOf(dep)],
               [spinner |-> dep, call |-> "End", arg |-> "false"]>>
        ELSE <<[spinner |-> dep, call |-> "End", arg |-> "true"]>>

InitBoot ==
    /\ NoCall
    /\ other = Idle
    /\ probe = Idle
    /\ boot \in {[pc |-> "sealed", cluster |-> c, err |-> Nil, log |-> <<>>,
                   service |-> [Name |-> "", Namespace |-> ""], result |-> Nil] :
                     c \in [Dependencies -> Findings]}

BootFrame ==
    UNCHANGED <<manifest, pc, idx, errs, envNames, appNames, serviceNames,
                serviceURLs, configNames, result, other, probe>>

\* err := client.CheckIfSealedSecretsExists(..) and its spinner
CheckSealedSecrets ==
    /\ boot.pc = "sealed"
    /\ LET err == CheckError(boot.cluster["sealed"])
       IN  boot' = [boot EXCEPT
                      !.err = err,
                      !.log = @ \o SpinnerCalls("sealed", err),
                      !.service = IF err = Nil
                                     THEN [Name |-> sealedSecretsName,
                                           Namespace |-> sealedSecretsNS]
                                     ELSE @,
                      !.pc = "argocd"]
    /\ BootFrame

\* A check of ArgoCD that is skipped, with the Pipelines check, when the
\* Sealed Secrets check failed.
CheckArgoCDUnlessFailed ==
    /\ boot.pc = "argocd"
    /\ LET err == CheckError(boot.cluster["argocd"])
       IN  boot' = IF boot.err # Nil
                      THEN [boot EXCEPT !.pc = "return"]
                      ELSE [boot EXCEPT !.err = err,
                                        !.log = @ \o SpinnerCalls("argocd", err),
                                        !.pc = "pipelines"]
    /\ BootFrame

\* err = client.CheckIfArgoCDExists(argoCDNS) and its spinner
CheckArgoCD ==
    /\ boot.pc = "argocd"
    /\ LET err == CheckError(boot.cluster["argocd"])
       IN  boot' = [boot EXCEPT !.err = err,
                                !.log = @ \o SpinnerCalls("argocd", err),
                                !.pc = "pipelines"]
    /\ BootFrame

\* err = client.CheckIfPipelinesExists(pipelinesOperatorNS) and its spinner
CheckPipelines ==
    /\ boot.pc = "pipelines"
    /\ LET err == CheckError(boot.cluster["pipelines"])
       IN  boot' = [boot EXCEPT !.err = err,
                                !.log = @ \o SpinnerCalls("pipelines", err),
                                !.pc = "return"]
    /\ BootFrame

FailedDependencies ==
    [Type |-> "error",
     Message |-> <<"Failed to satisfy the required dependencies">>]

\* if err != nil { return fmt.Errorf(..) }; return nil
ReturnDependencies ==
    /\ boot.pc = "return"
    /\ boot' = [boot EXCEPT
                   !.result = IF boot.err # Nil THEN FailedDependencies ELSE Nil,
                   !.pc = "done"]
    /\ BootFrame

NextBoot ==
    \/ CheckSealedSecrets
    \/ CheckArgoCD
    \/ CheckPipelines
    \/ ReturnDependencies

SpecBoot == InitBoot /\ [][NextBoot]_vars

\* ------------------------------------------------------------------------
\* Vocabulary of the properties.

Finished == pc = "done"

\* The errors of the aggregate Validate returned.
ResultErrors == IF result = Nil THEN <<>> ELSE result.Errors

Has(es, e) == \E i \in DOMAIN es : es[i] = e

Count(es, e) == Cardinality({i \in DOMAIN es : es[i] = e})

Visits == WalkOrder(manifest)

EnvOf(visit) == manifest.Environments[visit.env]
AppOf(visit) == EnvOf(visit).Apps[visit.n]
SvcOf(visit) == EnvOf(visit).Services[visit.n]

EnvVisitsOf == {k \in DOMAIN Visits : Visits[k].kind = "Environment"}
AppVisitsOf == {k \in DOMAIN Visits : Visits[k].kind = "Application"}
SvcVisitsOf == {k \in DOMAIN Visits : Visits[k].kind = "Service"}

\* The dotted path of the node of a visit.
PathOf(visit) ==
    IF visit.kind = "Environment" THEN yamlPath(PathForEnvironment(EnvOf(visit)))
    ELSE IF visit.kind = "Application"
        THEN yamlPath(PathForApplication(EnvOf(visit), AppOf(visit)))
    ELSE yamlPath(PathForService(EnvOf(visit), SvcOf(visit).Name))

NameOf(visit) ==
    IF visit.kind = "Environment" THEN EnvOf(visit).Name
    ELSE IF visit.kind = "Application" THEN AppOf(visit).Name
    ELSE SvcOf(visit).Name

\* The violations of one node that depend on nothing but the node.
LocalErrs(visit) ==
    IF visit.kind = "Environment"
        THEN NameErrs(EnvOf(visit).Name, PathOf(visit))
             \o validatePipelines(EnvOf(visit).Pipelines, PathOf(visit))
    ELSE IF visit.kind = "Application"
        THEN NameErrs(AppOf(visit).Name, PathOf(visit))
             \o OneOfErrs(AppOf(visit), PathOf(visit))
             \o (IF AppOf(visit).ConfigRepo # Nil
                 THEN validateConfigRepo(AppOf(visit).ConfigRepo,
                          yamlJoin(PathOf(visit), << <<"config_repo">> >>))
                 ELSE <<>>)
    ELSE NameErrs(SvcOf(visit).Name, PathOf(visit))
         \o validateWebhook(SvcOf(visit).Webhook, PathOf(visit))
         \o validatePipelines(SvcOf(visit).Pipelines, PathOf(visit))

\* Every string the Service visits of the manifest ever put in serviceNames.
ServiceKeys ==
    {NameOf(Visits[k]) : k \in SvcVisitsOf} \cup {PathOf(Visits[k]) : k \in SvcVisitsOf}

\* Node k repeats the path of an earlier node of its kind.
RepeatsPath(k) ==
    \E j \in 1..(k - 1) :
        Visits[j].kind = Visits[k].kind /\ PathOf(Visits[j]) = PathOf(Visits[k])

\* ------------------------------------------------------------------------
\* C1: per-node validation failures never stop the walk.  When Validate has
\* returned, every environment, application and service was visited, and the
\* returned error holds every violation of every node: its invalid names,
\* missing fields and mutually exclusive fields, the duplicate-field error of
\* a node that repeats an earlier path, and the missing-service error of every
\* reference that names nothing a Service visit registers.
C1_WalkNeverStops ==
    Finished =>
        /\ idx = Len(Visits) + 1
        /\ \A k \in DOMAIN Visits :
              /\ \A i \in DOMAIN LocalErrs(Visits[k]) :
                    Has(ResultErrors, LocalErrs(Visits[k])[i])
              /\ RepeatsPath(k) =>
                    Has(ResultErrors,
                        duplicateFieldsError(<<NameOf(Visits[k])>>,
                                             <<PathOf(Visits[k])>>))
              /\ Visits[k].kind = "Application" =>
                    \A i \in DOMAIN AppOf(Visits[k]).ServiceRefs :
                        AppOf(Visits[k]).ServiceRefs[i] \notin ServiceKeys =>
                            Has(ResultErrors,
                                missingServiceRefError(
                                    AppOf(Visits[k]).ServiceRefs[i],
                                    NameOf(Visits[k]), <<PathOf(Visits[k])>>))

\* Two different nodes have violations, the first of them an application with
\* an invalid name, and both are in the returned error.
C1_Witness ==
    /\ Finished
    /\ \E k1, k2 \in DOMAIN Visits :
          /\ k1 < k2
          /\ Visits[k1].kind = "Application"
          /\ NameErrs(NameOf(Visits[k1]), PathOf(Visits[k1])) # <<>>
          /\ LocalErrs(Visits[k2]) # <<>>
          /\ Has(ResultErrors, LocalErrs(Visits[k1])[1])
          /\ Has(ResultErrors, LocalErrs(Visits[k2])[1])

\* ------------------------------------------------------------------------
\* C2: Validate returns nil exactly when the accumulated list is empty after
\* the config check, the walk and the duplicate-source reconciliation;
\* otherwise it returns one aggregate that holds the whole list: the errors of
\* the config check first, and an error for every duplicated source URL.
C2_NilIffNoErrors ==
    Finished =>
        /\ (result = Nil) <=> (errs = <<>>)
        /\ ResultErrors = errs
        /\ SubSeq(ResultErrors, 1, Len(validateConfigErrs(manifest)))
              = validateConfigErrs(manifest)
        /\ \A url \in DuplicateURLs(serviceURLs) :
              Has(ResultErrors, duplicateSourceError(url, serviceURLs[url]))

\* A run in which each of the three phases accumulated an error.
C2_Witness ==
    /\ Finished
    /\ validateConfigErrs(manifest) # <<>>
    /\ DuplicateURLs(serviceURLs) # {}
    /\ \E k \in DOMAIN Visits : LocalErrs(Visits[k]) # <<>>
    /\ Len(ResultErrors) >= 3

\* ------------------------------------------------------------------------
\* C3: a manifest with no environment and no config entry validates.
NoConfigEntries ==
    \/ manifest.Config = Nil
    \/ /\ manifest.Config.ArgoCDConfig = Nil
       /\ manifest.Config.PipelineConfig = Nil

C3_EmptyManifestValid ==
    (Finished /\ manifest.Environments = <<>> /\ NoConfigEntries) => result = Nil

\* Validate has returned for an empty manifest whose Config block is present
\* but empty.
C3_Witness ==
    /\ Finished
    /\ manifest.Environments = <<>>
    /\ manifest.Config # Nil
    /\ NoConfigEntries
    /\ result = Nil

\* ------------------------------------------------------------------------
\* C4: when two environments of the manifest share a name, at whatever
\* positions, the returned error holds the duplicate-field error that names
\* the environment name, at the environment's path.
C4_DuplicateEnvironment ==
    Finished =>
        \A k1, k2 \in EnvVisitsOf :
            (k1 < k2 /\ NameOf(Visits[k1]) = NameOf(Visits[k2])) =>
                Has(ResultErrors,
                    duplicateFieldsError(<<NameOf(Visits[k2])>>,
                        <<yamlJoin(<<"environments">>, <<NameOf(Visits[k2])>>)>>))

\* Two environments of the same name that are not adjacent in the walk.
C4_Witness ==
    /\ Finished
    /\ \E k1, k2 \in EnvVisitsOf :
          /\ k1 + 1 < k2
          /\ NameOf(Visits[k1]) = NameOf(Visits[k2])
          /\ Has(ResultErrors,
                 duplicateFieldsError(<<NameOf(Visits[k2])>>, <<PathOf(Visits[k2])>>))

\* ------------------------------------------------------------------------
\* C5: application names are unique across all environments.  When two
\* applications of the manifest have the same name, in the same or in
\* different environments, the returned error holds a duplicate-field error
\* that names the application name, at the path of one of the two.
C5_DuplicateApplication ==
    Finished =>
        \A k1, k2 \in AppVisitsOf :
            (k1 < k2 /\ NameOf(Visits[k1]) = NameOf(Visits[k2])) =>
                \E p \in {PathOf(Visits[k1]), PathOf(Visits[k2])} :
                    Has(ResultErrors,
                        duplicateFieldsError(<<NameOf(Visits[k2])>>, <<p>>))

\* ------------------------------------------------------------------------
\* C6: service names are unique across all environments.  When two services
\* of the manifest have the same name, in the same or in different
\* environments, the returned error holds a duplicate-field error that names
\* the service name, at the path of one of the two.
C6_DuplicateService ==
    Finished =>
        \A k1, k2 \in SvcVisitsOf :
            (k1 < k2 /\ NameOf(Visits[k1]) = NameOf(Visits[k2])) =>
                \E p \in {PathOf(Visits[k1]), PathOf(Visits[k2])} :
                    Has(ResultErrors,
                        duplicateFieldsError(<<NameOf(Visits[k2])>>, <<p>>))

\* ------------------------------------------------------------------------
\* C7.  The application the walk is about to visit, and what its visit
\* appends to vv.errs.
AtApplication == pc = "walk" /\ Visit.kind = "Application"

Appended == SubSeq(errs', Len(errs) + 1, Len(errs'))

HasBoth(app) == Len(app.ServiceRefs) > 0 /\ app.ConfigRepo # Nil
HasNeither(app) == Len(app.ServiceRefs) = 0 /\ app.ConfigRepo = Nil

MutuallyExclusive(visit) ==
    ErrMultipleOneOf(<<yamlJoin(PathOf(visit), << <<"services">> >>),
                       yamlJoin(PathOf(visit), << <<"config_repo">> >>)>>)

MissingOneOf(visit) ==
    missingFieldsError(<< <<"services">>, <<"config_repo">> >>, <<PathOf(visit)>>)

\* C7 as stated: the visit of an application that has both a non-empty list of
\* service references and a ConfigRepo, or neither, adds exactly one error
\* for that application: the mutually-exclusive error or the missing-fields
\* error, and nothing else.
C7_ExactlyOneError ==
    [][(AtApplication /\ (HasBoth(AppOf(Visit)) \/ HasNeither(AppOf(Visit)))) =>
          /\ Len(Appended) = 1
          /\ Appended[1] = IF HasBoth(AppOf(Visit)) THEN MutuallyExclusive(Visit)
                                                     ELSE MissingOneOf(Visit)]_vars

\* C7 amended: the visit of such an application adds exactly one of the two
\* oneOf errors, the mutually-exclusive error when it has both and the
\* missing-fields error naming services and config_repo when it has neither,
\* never both of them; the other checks of the visit may add further errors.
C7_ExactlyOneOneOfError ==
    [][AtApplication =>
          /\ HasBoth(AppOf(Visit)) =>
                /\ Count(Appended, MutuallyExclusive(Visit)) = 1
                /\ Count(Appended, MissingOneOf(Visit)) = 0
          /\ HasNeither(AppOf(Visit)) =>
                /\ Count(Appended, MissingOneOf(Visit)) = 1
                /\ Count(Appended, MutuallyExclusive(Visit)) = 0]_vars

\* An application with both fields was visited; the returned error holds its
\* mutually-exclusive error and a further error of the same application.
C7_Witness ==
    /\ Finished
    /\ \E k \in AppVisitsOf :
          /\ HasBoth(AppOf(Visits[k]))
          /\ Len(AppOf(Visits[k]).ServiceRefs) = 1
          /\ Has(ResultErrors, MutuallyExclusive(Visits[k]))
          /\ Has(ResultErrors,
                 missingServiceRefError(AppOf(Visits[k]).ServiceRefs[1],
                                        NameOf(Visits[k]), <<PathOf(Visits[k])>>))

\* ------------------------------------------------------------------------
\* C8: a source URL declared by services at two or more distinct paths gets
\* exactly one duplicate-source error in the returned error, and the paths of
\* that error are all the declaring paths.
DeclaringPaths(url) ==
    {PathOf(Visits[k]) : k \in {j \in SvcVisitsOf : SvcOf(Visits[j]).SourceURL = url}}

DeclaredURLs == {SvcOf(Visits[k]).SourceURL : k \in SvcVisitsOf} \ {<<>>}

DuplicateSourceErrors(url) ==
    {i \in DOMAIN ResultErrors :
        ResultErrors[i].Message = <<"duplicate source ">> \o url}

Range(f) == {f[i] : i \in DOMAIN f}

C8_OneDuplicateSourceError ==
    Finished =>
        \A url \in DeclaredURLs :
            Cardinality(DeclaringPaths(url)) >= 2 =>
                /\ Cardinality(DuplicateSourceErrors(url)) = 1
                /\ \A i \in DuplicateSourceErrors(url) :
                      Range(ResultErrors[i].Paths) = DeclaringPaths(url)

\* Services of two different environments declare the same URL, and the
\* returned error holds its duplicate-source error.
C8_Witness ==
    /\ Finished
    /\ \E k1, k2 \in SvcVisitsOf :
          /\ Visits[k1].env # Visits[k2].env
          /\ SvcOf(Visits[k1]).SourceURL = SvcOf(Visits[k2]).SourceURL
          /\ SvcOf(Visits[k1]).SourceURL # <<>>
          /\ DuplicateSourceErrors(SvcOf(Visits[k1]).SourceURL) # {}

\* ------------------------------------------------------------------------
\* C9: an application that lists, once, a service name that no service of the
\* manifest declares gets exactly one missing-service error for that service
\* and application, at the application's path.  (Applications that share
\* their path with another application are left out.)
DeclaredServiceNames == {NameOf(Visits[k]) : k \in SvcVisitsOf}

Occurrences(refs, r) == Cardinality({i \in DOMAIN refs : refs[i] = r})

C9_MissingServiceReference ==
    Finished =>
        \A k \in AppVisitsOf :
            (\A j \in AppVisitsOf : PathOf(Visits[j]) = PathOf(Visits[k]) => j = k) =>
                \A r \in Range(AppOf(Visits[k]).ServiceRefs) :
                    (r \notin DeclaredServiceNames
                        /\ Occurrences(AppOf(Visits[k]).ServiceRefs, r) = 1) =>
                        Count(ResultErrors,
                              missingServiceRefError(r, NameOf(Visits[k]),
                                                     <<PathOf(Visits[k])>>)) = 1

\* ------------------------------------------------------------------------
\* C10: an environment whose name is the ArgoCD config name or the Pipeline
\* config name of the manifest gets the error that the environment cannot
\* have the same name as the config names; when its name occurs once among
\* the environments there is no duplicate-field error for it beside.
ConfigNamesOf(m) ==
    {n \in EnvNames \cup {upper} :
        /\ m.Config # Nil
        /\ \/ m.Config.ArgoCDConfig # Nil /\ m.Config.ArgoCDConfig.Namespace = n
           \/ m.Config.PipelineConfig # Nil /\ m.Config.PipelineConfig.Name = n}

OccursOnce(k) ==
    \A j \in EnvVisitsOf : NameOf(Visits[j]) = NameOf(Visits[k]) => j = k

C10_ConfigNameCollision ==
    Finished =>
        \A k \in EnvVisitsOf :
            NameOf(Visits[k]) \in ConfigNamesOf(manifest) =>
                /\ Has(ResultErrors, configNameError(NameOf(Visits[k])))
                /\ OccursOnce(k) =>
                      ~Has(ResultErrors,
                           duplicateFieldsError(<<NameOf(Visits[k])>>,
                                                <<PathOf(Visits[k])>>))

\* The only environment of the manifest has the Pipeline config name; the
\* returned error holds the collision error and no duplicate-field error.
C10_Witness ==
    /\ Finished
    /\ Len(manifest.Environments) = 1
    /\ manifest.Config # Nil
    /\ manifest.Config.PipelineConfig # Nil
    /\ manifest.Config.PipelineConfig.Name = manifest.Environments[1].Name
    /\ Has(ResultErrors, configNameError(manifest.Environments[1].Name))
    /\ ~Has(ResultErrors,
            duplicateFieldsError(<<manifest.Environments[1].Name>>,
                <<yamlPath(PathForEnvironment(manifest.Environments[1]))>>))

\* ------------------------------------------------------------------------
\* C11: two runs of Validate on the same manifest return the same errors in
\* the same order, also when two or more source URLs are each declared by
\* several services.
C11_SameErrorsSameOrder ==
    (pc = "done" /\ other.pc = "done") => other.result = result

\* The call of helper fn has returned.
Returned(fn) == probe.pc = "returned" /\ probe.fn = fn

\* ------------------------------------------------------------------------
\* C12: validateName accepts a name exactly when it matches
\* ^[a-z]([-a-z0-9]*[a-z0-9])?$ and has at most 63 characters; every other
\* name, one ending in a hyphen included, is rejected with the invalid-name
\* error that carries the name and the path.
C12_AcceptsExactlyLabels ==
    Returned("validateName") =>
        LET name == probe.arg
            label == dns1035LabelRegexp(name)
                     /\ Len(name) <= DNS1035LabelMaxLength
        IN  /\ probe.ret = Nil <=> label
            /\ probe.ret # Nil =>
                  /\ probe.ret.Paths = <<probe.path>>
                  /\ \E i \in 0..Len(probe.ret.Message) :
                        SubSeq(probe.ret.Message, i + 1, i + Len(name)) = name

\* ------------------------------------------------------------------------
\* C13: the state of a validation belongs to its call: of two calls of
\* Validate on two manifests whose steps interleave in any way, each returns
\* what it returns when it runs alone.
C13_SameAsAlone ==
    /\ pc = "done" => result \in Outcomes(NewCall(manifest))
    /\ other.pc = "done" => other.result \in Outcomes(NewCall(other.manifest))

\* Both calls returned; the first registered the service a, and the second
\* still reports its own reference to a as missing.
C13_Witness ==
    /\ pc = "done"
    /\ other.pc = "done"
    /\ a \in serviceNames
    /\ other.result # Nil
    /\ \E i \in DOMAIN other.result.Errors :
          other.result.Errors[i] =
              missingServiceRefError(a, a,
                  <<yamlPath(PathForApplication([Name |-> a], [Name |-> a]))>>)

\* ------------------------------------------------------------------------
\* C14: Validate leaves the manifest as it was: no step of a call changes the
\* Config, the sequence of environments, or a field of an environment, an
\* application or a service.
C14_ManifestUnchanged == [][manifest' = manifest]_vars

\* Validate returned errors for a manifest with a Config and two
\* environments, a service among them.
C14_Witness ==
    /\ pc = "done"
    /\ result # Nil
    /\ manifest.Config # Nil
    /\ Len(manifest.Environments) = 2
    /\ \E e \in DOMAIN manifest.Environments :
          Len(manifest.Environments[e].Services) > 0

\* ------------------------------------------------------------------------
\* C15: checkBootstrapDependencies returns the error "Failed to satisfy the
\* required dependencies" whenever at least one of Sealed Secrets, the ArgoCD
\* operator and the OpenShift Pipelines operator is not found (also when only
\* ArgoCD is missing), and nil only when all three are found.
C15_ErrorIffDependencyMissing ==
    boot.pc = "done" =>
        LET missing == {d \in Dependencies : boot.cluster[d] # "found"}
        IN  /\ missing # {} => boot.result = FailedDependencies
            /\ boot.result = Nil => missing = {}

\* ------------------------------------------------------------------------
\* C16 and C17.  The service the walk is about to visit; a reference r of the
\* application the walk is about to visit, the error its visit may append for
\* it, and whether a service named r was visited before.
AtService == pc = "walk" /\ Visit.kind = "Service"

MissingRef(r) == missingServiceRefError(r, AppOf(Visit).Name, <<PathOf(Visit)>>)

VisitedBefore(r) ==
    \E j \in 1..(idx - 1) : Visits[j].kind = "Service" /\ NameOf(Visits[j]) = r

\* C16: a reference is resolved against the services visited so far.  The
\* visit of an application appends a missing-service error for a reference to
\* a service the manifest declares but the walk has not visited yet, and none
\* for a reference to a service the walk has visited.
C16_ResolvedAtVisit ==
    [][AtApplication =>
         \A r \in Range(AppOf(Visit).ServiceRefs) :
             /\ (r \in DeclaredServiceNames /\ ~VisitedBefore(r))
                    => Has(Appended, MissingRef(r))
             /\ VisitedBefore(r) => ~Has(Appended, MissingRef(r))]_vars

\* C17: the Service callback registers the name of the service whatever
\* errors the visit produced (duplicate, invalid name, webhook, pipelines):
\* the name is in serviceNames after the visit, and no later visit of an
\* application appends a missing-service error for a reference to that name.
C17_RegisteredWhateverErrors ==
    [][/\ AtService => SvcOf(Visit).Name \in serviceNames'
       /\ AtApplication =>
             \A r \in Range(AppOf(Visit).ServiceRefs) :
                 VisitedBefore(r) => ~Has(Appended, MissingRef(r))]_vars

\* Validate returned; the visit of a service produced errors, a later
\* application refers to its name, and the returned error holds those errors
\* and no missing-service error for the reference.
C17_Witness ==
    /\ Finished
    /\ \E j \in SvcVisitsOf, k \in AppVisitsOf :
          /\ j < k
          /\ LocalErrs(Visits[j]) # <<>>
          /\ \A i \in DOMAIN LocalErrs(Visits[j]) :
                Has(ResultErrors, LocalErrs(Visits[j])[i])
          /\ NameOf(Visits[j]) \in Range(AppOf(Visits[k]).ServiceRefs)
          /\ ~Has(ResultErrors,
                  missingServiceRefError(NameOf(Visits[j]), NameOf(Visits[k]),
                                         <<PathOf(Visits[k])>>))

C20_ConfigRepoErrors ==
    (Returned("validateConfigRepo") /\ probe.arg.ConfigRepo # Nil) =>
        LET repo == probe.arg.ConfigRepo
            IsEmpty(f) == IF f = <<"url">> THEN repo.URL = <<>> ELSE repo.Path = <<>>
            empty == SelectSeq(<< <<"url">>, <<"path">> >>, IsEmpty)
        IN  IF empty = <<>>
                THEN probe.errs = <<>>
                ELSE probe.errs =
                       <<missingFieldsError(empty,
                             <<probe.path \o <<".", "config_repo">>>>)>>

\* validateConfigRepo returned the error that names both fields.
C20_Witness ==
    /\ Returned("validateConfigRepo")
    /\ probe.arg.ConfigRepo # Nil
    /\ probe.arg.ConfigRepo.URL = <<>>
    /\ probe.arg.ConfigRepo.Path = <<>>
    /\ Len(probe.errs) = 1

\* ------------------------------------------------------------------------
\* C21: the registries of environment, application and service names do not
\* interfere.  Each registry holds keys of visited nodes of its own kind only;
\* a duplicate-field error for a node is caused by an earlier node of the
\* same kind, so an environment, an application and a service of one name,
\* each the only one of its kind, get none; and the error about the config
\* names is returned for environments only, for a name of the Config.
IsDuplicateField(e) ==
    e.Type = "FieldError" /\ SubSeq(e.Message, 1, 1) = <<"duplicate field(s) ">>

C21_RegistriesApart ==
    /\ envNames \subseteq {PathOf(Visits[k]) : k \in EnvVisitsOf}
    /\ appNames \subseteq {PathOf(Visits[k]) : k \in AppVisitsOf}
    /\ serviceNames \subseteq ServiceKeys
    /\ Finished =>
          /\ \A i \in DOMAIN ResultErrors :
                IsDuplicateField(ResultErrors[i]) =>
                    \E k \in DOMAIN Visits : \E j \in 1..(k - 1) :
                        /\ ResultErrors[i] =
                              duplicateFieldsError(<<NameOf(Visits[k])>>,
                                                   <<PathOf(Visits[k])>>)
                        /\ Visits[j].kind = Visits[k].kind
                        /\ PathOf(Visits[k]) \in {PathOf(Visits[j]), NameOf(Visits[j])}
          /\ \A i \in DOMAIN ResultErrors :
                ResultErrors[i].Type = "error" =>
                    \E k \in EnvVisitsOf :
                        /\ ResultErrors[i] = configNameError(NameOf(Visits[k]))
                        /\ NameOf(Visits[k]) \in ConfigNamesOf(manifest)

\* Validate returned for a manifest of an environment, an application and a
\* service, all named a, and the returned error holds no duplicate-field
\* error.
C21_Witness ==
    /\ Finished
    /\ \A k \in DOMAIN Visits : NameOf(Visits[k]) = a
    /\ EnvVisitsOf # {} /\ AppVisitsOf # {} /\ SvcVisitsOf # {}
    /\ \A j, k \in DOMAIN Visits : PathOf(Visits[j]) = PathOf(Visits[k]) => j = k
    /\ result # Nil
    /\ \A i \in DOMAIN ResultErrors : ~IsDuplicateField(ResultErrors[i])

\* ------------------------------------------------------------------------
\* C22 and C23.  The walk was aborted by a fatal error before node idx; the
\* registries as they were when node k was visited; the errors the visit of
\* node k appends, those of an environment in the order config-name
\* collision, duplicate field, invalid name, pipelines.
Aborted == pc \in {"urls", "return", "done"} /\ idx <= Len(Visits)

AppKeysBefore(k) == {PathOf(Visits[j]) : j \in {i \in AppVisitsOf : i < k}}

SvcKeysBefore(k) ==
    {PathOf(Visits[j]) : j \in {i \in SvcVisitsOf : i < k}}
    \cup {NameOf(Visits[j]) : j \in {i \in SvcVisitsOf : i < k}}

ErrsOfVisit(k) ==
    LET visit == Visits[k]
    IN  IF visit.kind = "Environment"
            THEN (IF NameOf(visit) \in ConfigNamesOf(manifest)
                    THEN <<configNameError(NameOf(visit))>> ELSE <<>>)
                 \o (IF RepeatsPath(k)
                    THEN <<duplicateFieldsError(<<NameOf(visit)>>, <<PathOf(visit)>>)>>
                    ELSE <<>>)
                 \o NameErrs(NameOf(visit), PathOf(visit))
                 \o validatePipelines(EnvOf(visit).Pipelines, PathOf(visit))
        ELSE IF visit.kind = "Application"
            THEN ApplicationErrs(EnvOf(visit), AppOf(visit), AppKeysBefore(k),
                                 SvcKeysBefore(k))
        ELSE ServiceErrs(EnvOf(visit), SvcOf(visit), SvcKeysBefore(k))

RECURSIVE ErrsOfVisits(_)
ErrsOfVisits(k) == IF k = 0 THEN <<>> ELSE ErrsOfVisits(k - 1) \o ErrsOfVisit(k)

\* C22: the returned errors are ordered by phase and by check: the errors of
\* the config check, then those of the visited nodes in the order of the
\* walk (those of an environment in the order collision, duplicate, name,
\* pipelines), then the fatal error of the walk if there was one, then the
\* duplicate-source errors.
C22_OrderedByPhase ==
    Finished =>
        \E o \in KeyOrders(DuplicateURLs(serviceURLs)) :
            ResultErrors =
                validateConfigErrs(manifest)
                \o ErrsOfVisits(idx - 1)
                \o (IF Aborted THEN <<WalkerFatal>> ELSE <<>>)
                \o [i \in DOMAIN o |-> duplicateSourceError(o[i], serviceURLs[o[i]])]

\* Validate returned a config error, the four errors of an environment, a
\* fatal error and a duplicate-source error.
C22_Witness ==
    /\ Finished
    /\ Aborted
    /\ validateConfigErrs(manifest) # <<>>
    /\ \E k \in EnvVisitsOf : k < idx /\ Len(ErrsOfVisit(k)) >= 4
    /\ DuplicateURLs(serviceURLs) # {}
    /\ Len(ResultErrors) >= 7

\* ------------------------------------------------------------------------
\* C23: when the walk returns a fatal error, Validate appends it to the
\* errors accumulated so far, still reconciles the source URLs collected
\* before the abort, and returns one aggregate that holds the earlier errors,
\* the fatal error once, and after it the duplicate-source errors.
C23_FatalFolded ==
    (Finished /\ Aborted) =>
        /\ result # Nil
        /\ result.Type = "multierror"
        /\ \E i \in DOMAIN ResultErrors :
              /\ ResultErrors[i] = WalkerFatal
              /\ SubSeq(ResultErrors, 1, i - 1) =
                    validateConfigErrs(manifest) \o ErrsOfVisits(idx - 1)
              /\ Len(ResultErrors) - i = Cardinality(DuplicateURLs(serviceURLs))
        /\ Count(ResultErrors, WalkerFatal) = 1
        /\ DOMAIN serviceURLs =
              {SvcOf(Visits[k]).SourceURL : k \in {j \in SvcVisitsOf : j < idx}}
                  \ {<<>>}
        /\ \A url \in DuplicateURLs(serviceURLs) :
              Has(ResultErrors, duplicateSourceError(url, serviceURLs[url]))

\* The walk was aborted after errors had been accumulated and two services
\* of one URL visited: the returned error holds earlier errors, the fatal
\* error and a duplicate-source error.
C23_Witness ==
    /\ Finished
    /\ Aborted
    /\ ResultErrors[1] # WalkerFatal
    /\ DuplicateURLs(serviceURLs) # {}
    /\ \E k \in SvcVisitsOf : k >= idx

\* ------------------------------------------------------------------------
\* C24: checkBootstrapDependencies performs the three checks in the order
\* Sealed Secrets, ArgoCD, Pipelines, whatever the earlier ones found: when it
\* has returned, the three spinners were ended in that order, each once, with
\* success exactly for the dependencies found, and the install warning was
\* given, before the end of its spinner, for exactly the dependencies whose
\* check failed.
IsEnd(e) == e.call = "End"
IsWarning(e) == e.call = "WarningStatus"

C25_OnlyVisitedNames ==
    /\ serviceNames \subseteq
          {NameOf(Visits[k]) : k \in {j \in SvcVisitsOf : j < idx}}
    /\ Finished =>
          \A k \in AppVisitsOf :
              \A r \in Range(AppOf(Visits[k]).ServiceRefs) :
                  ~Has(ResultErrors,
                       missingServiceRefError(r, NameOf(Visits[k]),
                                              <<PathOf(Visits[k])>>))
                      => \E j \in SvcVisitsOf : j < k /\ NameOf(Visits[j]) = r

\* ------------------------------------------------------------------------
\* C26: a duplicate-source error is returned only for a non-empty URL that at
\* least two different service paths declare: a service without a source URL
\* never enters serviceURLs, and the paths of every duplicate-source error
\* are at least two different paths, none of them twice.
IsDuplicateSource(e) ==
    e.Type = "FieldError" /\ SubSeq(e.Message, 1, 1) = <<"duplicate source ">>

C26_TwoDistinctPaths ==
    /\ <<>> \notin DOMAIN serviceURLs
    /\ Finished =>
          \A i \in DOMAIN ResultErrors :
              IsDuplicateSource(ResultErrors[i]) =>
                  LET paths == ResultErrors[i].Paths
                  IN  /\ Len(ResultErrors[i].Message) > 1
                      /\ Len(paths) >= 2
                      /\ \A m, n \in DOMAIN paths : paths[m] = paths[n] => m = n

====
